---------------------------- MODULE Spec2Model ----------------------------
(***************************************************************************)
(* JSON-RPC over WebSocket gateway of gns3-server                          *)
(* (gns3server/handlers/jsonrpc_websocket.py, class JSONRPCWebSocket).     *)
(*                                                                         *)
(* Program state: the class attributes `clients` (session directory) and   *)
(* `destinations` (method registry) and each handler object's session id.  *)
(* Every handler of the class is one action.  What a handler invocation    *)
(* did (frames sent on the ZeroMQ router, text sent on the reply stream,   *)
(* WebSocket frames written, built-ins called, exception raised) is kept   *)
(* in the variables sent, stream_sent, written, called and raised, which   *)
(* always describe the most recent invocation, recorded in `last`.         *)
(*                                                                         *)
(* Frame Relay switch handlers of the Dynamips module                      *)
(* (gns3server/modules/dynamips/backends/frsw.py, class FRSW): the switch  *)
(* table `_frame_relay_switches`, one action per handler, and the          *)
(* send_response / send_custom_error / send_param_error calls of the most  *)
(* recent handler.  What the hypervisor and the switch objects do is       *)
(* outside the two files: each of their calls either succeeds or raises.   *)
(***************************************************************************)
EXTENDS Integers, Sequences, FiniteSets, TLC

VARIABLES
    clients,        \* JSONRPCWebSocket.clients: set of handler objects
    destinations,   \* JSONRPCWebSocket.destinations: method name -> target
    session_id,     \* handler object -> its _session_id (NoId before __init__)
    opened,         \* handler objects on which open() has been invoked
    closed,         \* handler objects on which on_close() has been invoked
    last,           \* the most recent handler invocation and its arguments
    sent,           \* two-frame messages it sent on zmq_router, in order
    stream_sent,    \* strings it sent on the reply stream, in order
    written,        \* handler object -> frames it wrote to that WebSocket
    called,         \* in-process handlers it called, in order
    raised,         \* the exception it ended with, "none" if it returned
    inflight,       \* requests routed to a module and not yet answered
    recv,           \* handler object -> every frame written to it so far
    answers,        \* handler object -> responses modules addressed to it
    frame_relay_switches,   \* FRSW._frame_relay_switches: id -> switch
    hypervisor_manager,     \* FRSW._hypervisor_manager is set
    handled,        \* the most recent FRSW handler and its request
    replies,        \* the send_* calls it made, in order
    failed          \* the exception it ended with, "none" if it returned

prog == <<clients, destinations, session_id, opened, closed>>
effect == <<last, sent, stream_sent, written, called, raised>>
env == <<inflight, recv, answers>>
backend == <<frame_relay_switches, hypervisor_manager, handled, replies, failed>>
vars == <<prog, effect, env, backend>>

-----------------------------------------------------------------------------
(* Bounds of the model *)

NumSessions == 2       \* handler objects that can be constructed
MaxInFlight == 1       \* requests a module may hold unanswered (SpecRT)
MaxRecv == 2           \* frames logged per session (SpecRT)
MaxSwitches == 2       \* Frame Relay switches that exist at a time (SpecFRSW)

Sessions == 1 .. NumSessions

-----------------------------------------------------------------------------
(* JSON scalars as Python sees them after json_decode *)

JNull == [t |-> "null", s |-> "", n |-> 0]
JStr(x) == [t |-> "str", s |-> x, n |-> 0]
JNum(k) == [t |-> "num", s |-> "", n |-> k]

\* Python truth value of a decoded JSON scalar: None, 0 and "" are false.
Truthy(v) ==
    CASE v.t = "null" -> FALSE
      [] v.t = "num" -> v.n # 0
      [] v.t = "str" -> v.s # ""
      [] OTHER -> TRUE

\* Python ==  between a decoded JSON scalar and a float.
EqNumber(v, k) == v.t = "num" /\ v.n = k

\* Python ==  between a decoded JSON scalar and a str.
EqString(v, x) == v.t = "str" /\ v.s = x

\* str.startswith / str.endswith on strings held as sequences of characters.
startswith(str, prefix) ==
    /\ Len(str) >= Len(prefix)
    /\ SubSeq(str, 1, Len(prefix)) = prefix

\* Mutant of endswith: the suffix may occur anywhere in the string.
endswith_anywhere(str, suffix) ==
    \E i \in 1 .. Len(str) :
        /\ i + Len(suffix) - 1 <= Len(str)
        /\ SubSeq(str, i, i + Len(suffix) - 1) = suffix

endswith(str, suffix) ==
    /\ Len(str) >= Len(suffix)
    /\ SubSeq(str, Len(str) - Len(suffix) + 1, Len(str)) = suffix

-----------------------------------------------------------------------------
(* Method names, modules, in-process handlers *)

builtin == <<"b", "u", "i", "l", "t", "i", "n">>
reset == <<"r", "e", "s", "e", "t">>

a_reset == <<"a", ".">> \o reset             \* "a.reset"
b_reset == <<"b", ".">> \o reset             \* "b.reset"
reset_builtin == reset \o <<".">> \o builtin \* "reset.builtin": neither
                                             \* suffix reset nor prefix builtin

Methods == {a_reset, b_reset, reset_builtin, builtin}

Modules == {"m1", "m2"}
Handlers == {"h1"}

Remote(m) == [tag |-> "module", name |-> m]
Local(h) == [tag |-> "handler", name |-> h]

\* What register_destination is called with: names beginning with "builtin"
\* are bound to in-process callables, every other name to a module address
\* (the convention on_message lines 143-148 and on_close line 171 rely on).
Targets(destination) ==
    IF startswith(destination, builtin)
    THEN {Local(h) : h \in Handlers}
    ELSE {Remote(m) : m \in Modules}

-----------------------------------------------------------------------------
(* Session ids *)

NoId == ""

\* str(uuid.uuid4()): the k-th id drawn; distinct draws give distinct ids.
uuid4(k) == <<"u1", "u2", "u3", "u4", "u5">>[k]


-----------------------------------------------------------------------------
(* WebSocket frames received from a client *)

Keys == {"jsonrpc", "method", "id"}
Versions == {JStr("2.0"), JNum(2), JStr("1.0")}
Ids == {JNull, JNum(0), JStr(""), JNum(7)}

\* A frame is text that json_decode rejects (kind "text"), JSON that is not
\* an object (kind "array"), or a JSON object with the members named in
\* `members`; a member that is absent holds a placeholder that is never read.
Frame(kind, members, v, m, i) ==
    [kind |-> kind, members |-> members,
     jsonrpc |-> IF "jsonrpc" \in members THEN v ELSE JNull,
     method |-> IF "method" \in members THEN m ELSE <<>>,
     id |-> IF "id" \in members THEN i ELSE JNull]

NoFrame == Frame("none", {}, JNull, <<>>, JNull)
TextFrame == Frame("text", {}, JNull, <<>>, JNull)
ArrayFrame == Frame("array", {}, JNull, <<>>, JNull)

ObjectFrames ==
    {Frame("object", mem, v, m, i) :
        mem \in SUBSET Keys, v \in Versions, m \in Methods, i \in Ids}

Frames == {TextFrame, ArrayFrame} \cup ObjectFrames

-----------------------------------------------------------------------------
(* JSON documents written to a WebSocket or carried as a module's response *)

Doc(kind, code, id, label) ==
    [kind |-> kind, code |-> code, id |-> id, label |-> label]

\* gns3server/jsonrpc.py: the envelopes the handler instantiates and calls.
JSONRPCParseError == Doc("error", -32700, JNull, "Parse error")
JSONRPCInvalidRequest == Doc("error", -32600, JNull, "Invalid Request")
JSONRPCMethodNotFound(request_id) ==
    Doc("error", -32601, request_id, "Method not found")

\* A notification envelope: jsonrpc and method, no id.
JSONRPCNotification(method) ==
    Frame("object", {"jsonrpc", "method"}, JStr("2.0"), method, JNull)

\* A JSON-RPC response object as a module shapes it.
Result(request_id, label) == Doc("result", 0, request_id, label)
\* A module response that is a bare JSON number, not an object.
NumberDoc == Doc("number", 5, JNull, "")

NoDoc == Doc("none", 0, JNull, "")

\* tornado's WebSocketHandler.write_message takes a dict (encoded as JSON)
\* or a string; anything else ends in a TypeError before a frame is written.
Writable(doc) == doc.kind \in {"error", "result", "text"}

-----------------------------------------------------------------------------
(* Messages on the bus *)

\* zmq_router.send_string(module, SNDMORE); zmq_router.send_json([sid, body])
BusMessage(module, sid, body) == [module |-> module, sid |-> sid, body |-> body]

\* A two-frame message read from the bus.  message[1] is text json_decode
\* rejects (kind "text"), a JSON array of `len` elements of which the first
\* is `sid` and the second `response`, a JSON object, or a JSON number.
Inbound(module, kind, len, sid, response) ==
    [module |-> module, kind |-> kind, len |-> len,
     sid |-> IF len >= 1 THEN sid ELSE JNull,
     response |-> IF len >= 2 THEN response ELSE NoDoc]

NoMessage == Inbound("", "none", 0, JNull, NoDoc)

SidValues == {JStr(uuid4(k)) : k \in 1 .. NumSessions + 1} \cup {JNum(1)}
Responses == {Result(JNum(7), "r1"), Result(JNull, "r2"), NumberDoc}

Messages ==
    {Inbound(mod, kind, 0, JNull, NoDoc) :
        mod \in Modules, kind \in {"text", "object", "number"}}
    \cup {Inbound(mod, "array", len, sid, r) :
            mod \in Modules, len \in 0 .. 2, sid \in SidValues, r \in Responses}

-----------------------------------------------------------------------------
(* The handlers, as functions of the program state and their arguments *)

version == 2    \* JSONRPCWebSocket.version = 2.0, a float

Nothing == [s \in Sessions |-> <<>>]
Only(self, frames) == [s \in Sessions |-> IF s = self THEN frames ELSE <<>>]

Outcome(snt, strm, wrt, cld, exc) ==
    [sent |-> snt, stream_sent |-> strm, written |-> wrt, called |-> cld,
     raised |-> exc]

\* Mutant of on_message: a frame without an id is taken for a notification
\* before it is validated, and its errors are not reported.
on_message_quiet(self, message) ==
    LET decoded == /\ message.kind = "object"
                   /\ "jsonrpc" \in message.members
                   /\ "method" \in message.members
        has_id == message.kind = "object" /\ "id" \in message.members
        request_id == IF "id" \in message.members THEN message.id ELSE JNull
    IN  IF ~decoded
        THEN Outcome(<<>>, <<>>,
                     IF has_id THEN Only(self, <<JSONRPCParseError>>)
                     ELSE Nothing,
                     <<>>, "none")
        ELSE IF ~EqNumber(message.jsonrpc, version)
        THEN Outcome(<<>>, <<>>,
                     IF has_id THEN Only(self, <<JSONRPCInvalidRequest>>)
                     ELSE Nothing,
                     <<>>, "none")
        ELSE IF message.method \notin DOMAIN destinations
        THEN IF Truthy(request_id)
             THEN Outcome(<<>>, <<>>,
                          Only(self, <<JSONRPCMethodNotFound(request_id)>>),
                          <<>>, "none")
             ELSE Outcome(<<>>, <<>>, Nothing, <<>>, "none")
        ELSE IF startswith(message.method, builtin)
        THEN Outcome(<<>>, <<>>, Nothing,
                     <<destinations[message.method].name>>, "none")
        ELSE Outcome(<<BusMessage(destinations[message.method].name,
                                  session_id[self], message)>>,
                     <<>>, Nothing, <<>>, "none")

\* on_message(self, message)
on_message(self, message) ==
    LET \* the try block: json_decode, request["jsonrpc"], request["method"]
        decoded == /\ message.kind = "object"
                   /\ "jsonrpc" \in message.members
                   /\ "method" \in message.members
        jsonrpc_version == message.jsonrpc
        method == message.method
        \* request.get("id"): None when the member is absent
        request_id == IF "id" \in message.members THEN message.id ELSE JNull
    IN  IF ~decoded
        THEN Outcome(<<>>, <<>>, Only(self, <<JSONRPCParseError>>), <<>>, "none")
        ELSE IF ~EqNumber(jsonrpc_version, version)
        THEN Outcome(<<>>, <<>>, Only(self, <<JSONRPCInvalidRequest>>), <<>>,
                     "none")
        ELSE IF method \notin DOMAIN destinations
        THEN IF Truthy(request_id)
             THEN Outcome(<<>>, <<>>,
                          Only(self, <<JSONRPCMethodNotFound(request_id)>>),
                          <<>>, "none")
             ELSE Outcome(<<>>, <<>>, Nothing, <<>>, "none")
        ELSE IF startswith(method, builtin)
        THEN IF destinations[method].tag = "handler"
             THEN Outcome(<<>>, <<>>, Nothing, <<destinations[method].name>>,
                          "none")
             ELSE Outcome(<<>>, <<>>, Nothing, <<>>, "TypeError")
        ELSE Outcome(<<BusMessage(destinations[method].name, session_id[self],
                                  message)>>,
                     <<>>, Nothing, <<>>, "none")

\* Mutant of dispatch_message: the write to the matching session is made
\* twice.
dispatch_message_twice(message) ==
    LET matching == {c \in clients : EqString(message.sid, session_id[c])}
    IN  CASE message.kind = "text" ->
                Outcome(<<>>, <<"Cannot decode message!">>, Nothing, <<>>,
                        "none")
          [] message.kind = "object" ->
                Outcome(<<>>, <<>>, Nothing, <<>>, "KeyError")
          [] message.kind = "number" ->
                Outcome(<<>>, <<>>, Nothing, <<>>, "TypeError")
          [] message.kind = "array" /\ message.len < 2 ->
                Outcome(<<>>, <<>>, Nothing, <<>>, "IndexError")
          [] OTHER ->
                IF matching # {} /\ ~Writable(message.response)
                THEN Outcome(<<>>, <<>>, Nothing, <<>>, "TypeError")
                ELSE Outcome(<<>>, <<>>,
                             [s \in Sessions |->
                                 IF s \in matching
                                 THEN <<message.response, message.response>>
                                 ELSE <<>>],
                             <<>>, "none")

\* Mutant of dispatch_message: a reply that finds its session is written to
\* every session of the directory.
dispatch_message_broadcast(message) ==
    LET matching == {c \in clients : EqString(message.sid, session_id[c])}
    IN  CASE message.kind = "text" ->
                Outcome(<<>>, <<"Cannot decode message!">>, Nothing, <<>>,
                        "none")
          [] message.kind = "object" ->
                Outcome(<<>>, <<>>, Nothing, <<>>, "KeyError")
          [] message.kind = "number" ->
                Outcome(<<>>, <<>>, Nothing, <<>>, "TypeError")
          [] message.kind = "array" /\ message.len < 2 ->
                Outcome(<<>>, <<>>, Nothing, <<>>, "IndexError")
          [] OTHER ->
                IF matching # {} /\ ~Writable(message.response)
                THEN Outcome(<<>>, <<>>, Nothing, <<>>, "TypeError")
                ELSE Outcome(<<>>, <<>>,
                             [s \in Sessions |->
                                 IF matching # {} /\ s \in clients
                                 THEN <<message.response>> ELSE <<>>],
                             <<>>, "none")

\* Mutant of dispatch_message: the session is looked up among all handler
\* objects, not in the directory.
dispatch_message_any(message) ==
    LET matching == {c \in Sessions : EqString(message.sid, session_id[c])}
    IN  IF message.kind = "array" /\ message.len = 2
           /\ Writable(message.response)
        THEN Outcome(<<>>, <<>>,
                     [s \in Sessions |->
                         IF s \in matching
                         THEN <<message.response>> ELSE <<>>],
                     <<>>, "none")
        ELSE Outcome(<<>>, <<>>, Nothing, <<>>, "none")

\* dispatch_message(cls, stream, message)
dispatch_message(message) ==
    LET matching == {c \in clients : EqString(message.sid, session_id[c])}
    IN  CASE message.kind = "text" ->
                Outcome(<<>>, <<"Cannot decode message!">>, Nothing, <<>>,
                        "none")
          [] message.kind = "object" ->      \* json_message[0] on a dict
                Outcome(<<>>, <<>>, Nothing, <<>>, "KeyError")
          [] message.kind = "number" ->      \* json_message[0] on a number
                Outcome(<<>>, <<>>, Nothing, <<>>, "TypeError")
          [] message.kind = "array" /\ message.len < 2 ->
                Outcome(<<>>, <<>>, Nothing, <<>>, "IndexError")
          [] OTHER ->
                IF matching # {} /\ ~Writable(message.response)
                THEN Outcome(<<>>, <<>>, Nothing, <<>>, "TypeError")
                ELSE Outcome(<<>>, <<>>,
                             [s \in Sessions |->
                                 IF s \in matching
                                 THEN <<message.response>> ELSE <<>>],
                             <<>>, "none")

\* Mutant of register_destination: no assertion, a bound method is rebound.
register_destination_rebind(destination, module) ==
    [destinations |->
        [d \in DOMAIN destinations \cup {destination} |->
            IF d = destination THEN module ELSE destinations[d]],
     raised |-> "none"]

\* register_destination(cls, destination, module): the registry afterwards
\* and the exception raised.
register_destination(destination, module) ==
    IF destination \in DOMAIN destinations
    THEN [destinations |-> destinations, raised |-> "AssertionError"]
    ELSE [destinations |->
             [d \in DOMAIN destinations \cup {destination} |->
                 IF d = destination THEN module ELSE destinations[d]],
          raised |-> "none"]

\* Mutant of open: the session is not added to the directory.
open_forgets(self) == clients

\* open(self): the directory afterwards
open(self) == clients \cup {self}

\* The loop of on_close over destinations.items(), taken in the order
\* `items`: what is sent, and the exception that ends the loop early.
RECURSIVE reset_loop(_, _)
reset_loop(self, items) ==
    IF items = <<>>
    THEN [sent |-> <<>>, raised |-> "none"]
    ELSE LET destination == Head(items)
             module == destinations[destination]
         IN  IF ~endswith(destination, reset)
             THEN reset_loop(self, Tail(items))
             ELSE IF module.tag # "module"   \* send_string of a callable
             THEN [sent |-> <<>>, raised |-> "TypeError"]
             ELSE LET rest == reset_loop(self, Tail(items))
                  IN  [sent |-> <<BusMessage(module.name, session_id[self],
                                    JSONRPCNotification(destination))>>
                                \o rest.sent,
                       raised |-> rest.raised]

\* Mutant of on_close: the session is discarded from the directory, not
\* removed, so that a session that is not there goes on to the broadcast.
on_close_discard(self, items) ==
    IF clients \ {self} # {}
    THEN [clients |-> clients \ {self}, sent |-> <<>>, raised |-> "none"]
    ELSE LET loop == reset_loop(self, items)
         IN  [clients |-> clients \ {self}, sent |-> loop.sent,
              raised |-> loop.raised]

\* Mutant of on_close: the broadcast is sent whether or not sessions remain.
on_close_always(self, items) ==
    IF self \notin clients
    THEN [clients |-> clients, sent |-> <<>>, raised |-> "KeyError"]
    ELSE LET loop == reset_loop(self, items)
         IN  [clients |-> clients \ {self}, sent |-> loop.sent,
              raised |-> loop.raised]

\* on_close(self), with the dict iterated in the order `items`: the directory
\* afterwards, what is sent and the exception raised.
on_close(self, items) ==
    IF self \notin clients              \* set.remove of a missing element
    THEN [clients |-> clients, sent |-> <<>>, raised |-> "KeyError"]
    ELSE IF clients \ {self} # {}
    THEN [clients |-> clients \ {self}, sent |-> <<>>, raised |-> "none"]
    ELSE LET loop == reset_loop(self, items)
         IN  [clients |-> clients \ {self}, sent |-> loop.sent,
              raised |-> loop.raised]

\* The orders in which a dict with the keys S can be iterated.
Orders(S) ==
    {o \in [1 .. Cardinality(S) -> S] :
        \A i, j \in 1 .. Cardinality(S) : o[i] = o[j] => i = j}

-----------------------------------------------------------------------------
(* Frame Relay switch handlers (class FRSW) *)

SwitchIds == 1 .. MaxSwitches
SwitchNames == {"sw1", "sw2"}

\* No name: the request gives none and FrameRelaySwitch picks its own.
NoName == ""

\* The request parameters the handlers read.
Params == {"id", "name", "port", "port_id", "mappings", "nio"}

\* A value handed to or by a handler: None, a dict with the keys `members`
\* (of which the handlers look at the values of "id" and "name"), or the
\* text of an exception.
Value(kind, members, id, name) ==
    [kind |-> kind, members |-> members,
     id |-> IF "id" \in members THEN id ELSE 0,
     name |-> IF "name" \in members THEN name ELSE NoName]

None == Value("null", {}, 0, NoName)
ErrorText == Value("text", {}, 0, NoName)
Dict(members, id, name) == Value("object", members, id, name)

Requests ==
    {None} \cup {Dict(members, id, name) :
                    members \in SUBSET Params, id \in SwitchIds,
                    name \in SwitchNames}

\* A call of self.send_response, self.send_custom_error or
\* self.send_param_error.
Call(fn, arg) == [fn |-> fn, arg |-> arg]

\* What a call into the hypervisor or a switch object does: it succeeds, or
\* the call named `call` raises DynamipsError or another exception (`kind`);
\* create_nio can also return nothing.
Fault(call, kind) == [call |-> call, kind |-> kind]
NoFault == Fault("", "none")
FaultsOf(calls) ==
    {NoFault} \cup {Fault(call, kind) :
                       call \in calls, kind \in {"DynamipsError", "Exception"}}

\* Where a handler leaves the switch table and the hypervisor manager, the
\* send_* calls it made and the exception it ended with.
Ended(switches, manager, calls, exc) ==
    [switches |-> switches, manager |-> manager, replies |-> calls,
     failed |-> exc]

\* if request == None: self.send_param_error(); return
ParamError ==
    Ended(frame_relay_switches, hypervisor_manager,
          <<Call("send_param_error", None)>>, "none")

\* An exception that no except clause of the handler catches.
Unhandled(exc) == Ended(frame_relay_switches, hypervisor_manager, <<>>, exc)

\* An exception raised inside a try whose only clause is
\* `except DynamipsError as e: self.send_custom_error(str(e)); return`.
InTry(fault, manager) ==
    IF fault.kind = "DynamipsError"
    THEN Ended(frame_relay_switches, manager,
               <<Call("send_custom_error", ErrorText)>>, "none")
    ELSE Ended(frame_relay_switches, manager, <<>>, fault.kind)

\* frsw_id = request["id"]; frsw = self._frame_relay_switches[frsw_id]
NoSuchSwitch(request) ==
    "id" \notin request.members \/ request.id \notin DOMAIN frame_relay_switches

\* frsw_create(self, request); `id` is the id of the new FrameRelaySwitch.
frsw_create(request, fault, id) ==
    LET name == IF request.kind = "object" /\ "name" \in request.members
                THEN request.name ELSE NoName
    IN  IF ~hypervisor_manager /\ fault.call = "start_hypervisor_manager"
        THEN InTry(fault, FALSE)
        ELSE IF fault.call \in {"allocate_hypervisor_for_simulated_device",
                                "FrameRelaySwitch"}
        THEN InTry(fault, TRUE)
        ELSE Ended([k \in DOMAIN frame_relay_switches \cup {id} |->
                       IF k = id THEN [name |-> name]
                       ELSE frame_relay_switches[k]],
                   TRUE,
                   <<Call("send_response", Dict({"name", "id"}, id, name))>>,
                   "none")

\* Mutant of frsw_delete: the switch is taken out of the table before it is
\* deleted in the hypervisor.
frsw_delete_early(request, fault) ==
    IF request = None
    THEN ParamError
    ELSE IF NoSuchSwitch(request)
    THEN Unhandled("KeyError")
    ELSE LET rest == [k \in DOMAIN frame_relay_switches \ {request.id} |->
                         frame_relay_switches[k]]
         IN  IF fault.call \in {"delete",
                                "unallocate_hypervisor_for_simulated_device"}
             THEN [InTry(fault, hypervisor_manager) EXCEPT !.switches = rest]
             ELSE Ended(rest, hypervisor_manager,
                        <<Call("send_response", request)>>, "none")

\* frsw_delete(self, request)
frsw_delete(request, fault) ==
    IF request = None
    THEN ParamError
    ELSE IF NoSuchSwitch(request)
    THEN Unhandled("KeyError")
    ELSE IF fault.call \in {"delete",
                            "unallocate_hypervisor_for_simulated_device"}
    THEN InTry(fault, hypervisor_manager)
    ELSE Ended([k \in DOMAIN frame_relay_switches \ {request.id} |->
                   frame_relay_switches[k]],
               hypervisor_manager,
               <<Call("send_response", request)>>, "none")

\* frsw_update(self, request)
frsw_update(request, fault) ==
    IF request = None
    THEN ParamError
    ELSE IF NoSuchSwitch(request)
    THEN Unhandled("KeyError")
    ELSE IF "name" \in request.members
            /\ frame_relay_switches[request.id].name # request.name
    THEN IF fault.call = "name"
         THEN InTry(fault, hypervisor_manager)
         ELSE Ended([frame_relay_switches EXCEPT
                        ![request.id].name = request.name],
                    hypervisor_manager,
                    <<Call("send_response", request)>>, "none")
    ELSE Ended(frame_relay_switches, hypervisor_manager,
               <<Call("send_response", request)>>, "none")

\* frsw_allocate_udp_port(self, request)
frsw_allocate_udp_port(request, fault) ==
    IF request = None
    THEN ParamError
    ELSE IF NoSuchSwitch(request)
    THEN Unhandled("KeyError")
    ELSE IF fault.call = "allocate_udp_port"
    THEN InTry(fault, hypervisor_manager)
    ELSE IF "port_id" \notin request.members
    THEN Unhandled("KeyError")
    ELSE Ended(frame_relay_switches, hypervisor_manager,
               <<Call("send_response", Dict({"lport", "port_id"}, 0, NoName))>>,
               "none")

\* frsw_add_nio(self, request)
frsw_add_nio(request, fault) ==
    IF request = None
    THEN ParamError
    ELSE IF NoSuchSwitch(request)
    THEN Unhandled("KeyError")
    ELSE IF "port" \notin request.members \/ "mappings" \notin request.members
    THEN Unhandled("KeyError")
    ELSE IF fault.call = "create_nio" /\ fault.kind = "None"
    THEN IF "nio" \in request.members   \* raise DynamipsError(... request["nio"])
         THEN InTry(Fault("create_nio", "DynamipsError"), hypervisor_manager)
         ELSE Unhandled("KeyError")
    ELSE IF fault.call \in {"create_nio", "add_nio"}
    THEN InTry(fault, hypervisor_manager)
    ELSE Ended(frame_relay_switches, hypervisor_manager,
               <<Call("send_response", request)>>, "none")

\* frsw_delete_nio(self, request)
frsw_delete_nio(request, fault) ==
    IF request = None
    THEN ParamError
    ELSE IF NoSuchSwitch(request)
    THEN Unhandled("KeyError")
    ELSE IF "port" \notin request.members
    THEN Unhandled("KeyError")
    ELSE IF fault.call = "remove_nio"
    THEN InTry(fault, hypervisor_manager)
    ELSE Ended(frame_relay_switches, hypervisor_manager,
               <<Call("send_response", request)>>, "none")

NoCall == [handler |-> "none", request |-> None]

-----------------------------------------------------------------------------
(* State machine *)

Invocation(op, self, frame, message, destination, module) ==
    [op |-> op, self |-> self, frame |-> frame, message |-> message,
     destination |-> destination, module |-> module]

NoTarget == [tag |-> "none", name |-> ""]

\* The invocation `inv` ended with the outcome `out`.
Record(inv, out) ==
    /\ last' = inv
    /\ sent' = out.sent
    /\ stream_sent' = out.stream_sent
    /\ written' = out.written
    /\ called' = out.called
    /\ raised' = out.raised

Quiet == Outcome(<<>>, <<>>, Nothing, <<>>, "none")

NoInvocation == Invocation("none", 0, NoFrame, NoMessage, <<>>, NoTarget)

\* The event loop is single-threaded: it runs one handler at a time, and is
\* idle when the handler it ran has returned (or raised) to it.
Idle == last = NoInvocation

\* The class as loaded, with the registry `registry`.
Loaded(registry) ==
    /\ clients = {}
    /\ destinations = registry
    /\ session_id = [s \in Sessions |-> NoId]
    /\ opened = {}
    /\ closed = {}
    /\ last = NoInvocation
    /\ sent = <<>>
    /\ stream_sent = <<>>
    /\ written = Nothing
    /\ called = <<>>
    /\ raised = "none"
    /\ inflight = {}
    /\ recv = Nothing
    /\ answers = Nothing
    /\ frame_relay_switches = << >>
    /\ hypervisor_manager = FALSE
    /\ handled = NoCall
    /\ replies = <<>>
    /\ failed = "none"

Init == Loaded(<< >>)

\* __init__: tornado constructs one handler object per connection.
Construct(self) ==
    /\ Idle
    /\ session_id[self] = NoId
    /\ \A k \in Sessions : k < self => session_id[k] # NoId
    /\ session_id' = [session_id EXCEPT ![self] = uuid4(self)]
    /\ Record(Invocation("__init__", self, NoFrame, NoMessage, <<>>, NoTarget),
              Quiet)
    /\ UNCHANGED <<clients, destinations, opened, closed, env, backend>>

\* open: invoked once, when the WebSocket handshake of the object is done.
Open(self) ==
    /\ Idle
    /\ session_id[self] # NoId
    /\ self \notin opened \cup closed
    /\ clients' = open(self)
    /\ opened' = opened \cup {self}
    /\ Record(Invocation("open", self, NoFrame, NoMessage, <<>>, NoTarget),
              Quiet)
    /\ UNCHANGED <<destinations, session_id, closed, env, backend>>

\* Mutant of OnMessage: a session that is sent an error reply is dropped from
\* the directory.
OnMessage_disconnects(self, message) ==
    LET out == on_message(self, message)
    IN  /\ Idle
        /\ self \in opened \ closed
        /\ Record(Invocation("on_message", self, message, NoMessage, <<>>,
                             NoTarget),
                  out)
        /\ clients' = IF out.written[self] # <<>>
                      THEN clients \ {self} ELSE clients
        /\ UNCHANGED <<destinations, session_id, opened, closed, env, backend>>

\* on_message: invoked for each frame of an open connection.
OnMessage(self, message) ==
    /\ Idle
    /\ self \in opened \ closed
    /\ Record(Invocation("on_message", self, message, NoMessage, <<>>,
                         NoTarget),
              on_message(self, message))
    /\ UNCHANGED <<prog, env, backend>>

\* on_close: invoked when the connection of a constructed object goes away.
OnClose(self) ==
    /\ Idle
    /\ session_id[self] # NoId
    /\ \E items \in Orders(DOMAIN destinations) :
          LET out == on_close(self, items)
          IN  /\ clients' = out.clients
              /\ Record(Invocation("on_close", self, NoFrame, NoMessage, <<>>,
                                   NoTarget),
                        Outcome(out.sent, <<>>, Nothing, <<>>, out.raised))
    /\ closed' = closed \cup {self}
    /\ UNCHANGED <<destinations, session_id, opened, env, backend>>

\* dispatch_message: invoked for each message read from the bus.
DispatchMessage(message) ==
    /\ Idle
    /\ Record(Invocation("dispatch_message", 0, NoFrame, message, <<>>,
                         NoTarget),
              dispatch_message(message))
    /\ UNCHANGED <<prog, env, backend>>

\* register_destination: invoked by the modules as they are brought up.
RegisterDestination(destination, module) ==
    LET out == register_destination(destination, module)
    IN  /\ Idle
        /\ destinations' = out.destinations
        /\ Record(Invocation("register_destination", 0, NoFrame, NoMessage,
                             destination, module),
                  Outcome(<<>>, <<>>, Nothing, <<>>, out.raised))
        /\ UNCHANGED <<clients, session_id, opened, closed, env, backend>>

\* The handler returns to the event loop, which takes the next event.
Return ==
    /\ ~Idle
    /\ Record(NoInvocation, Quiet)
    /\ UNCHANGED <<prog, env, backend>>

Next ==
    \/ \E self \in Sessions : Construct(self)
    \/ \E self \in Sessions : Open(self)
    \/ \E self \in Sessions : \E message \in Frames : OnMessage(self, message)
    \/ \E self \in Sessions : OnClose(self)
    \/ \E message \in Messages : DispatchMessage(message)
    \/ \E destination \in Methods :
          \E module \in Targets(destination) :
             RegisterDestination(destination, module)
    \/ Return

Spec == Init /\ [][Next]_vars

-----------------------------------------------------------------------------
(* The gateway together with the bus and well-behaved modules.             *)
(* inflight holds the requests a module has been sent and has not answered; *)
(* a module answers a request with one response, carrying the id of the    *)
(* request, addressed to the session id the request came with.  recv and   *)
(* answers log, per session, the frames written to it and the responses    *)
(* addressed to it, each with the request it belongs to.                    *)

\* Requests as a client sends them: jsonrpc, method and an id.
RTFrames ==
    {Frame("object", Keys, v, m, JNum(7)) :
        v \in {JStr("2.0"), JNum(2)}, m \in {a_reset, reset_builtin}}

Tagged(frames, request) ==
    [i \in DOMAIN frames |-> [for |-> request, doc |-> frames[i]]]

Range(seq) == {seq[i] : i \in DOMAIN seq}

\* The registry after the modules have been brought up.
InitRT ==
    \E registry \in [{a_reset, reset_builtin} -> {Remote(m) : m \in Modules}] :
        Loaded(registry)

RTOnMessage(self, message) ==
    LET out == on_message(self, message)
    IN  /\ Idle
        /\ self \in opened \ closed
        /\ Len(recv[self]) + Len(out.written[self]) <= MaxRecv
        /\ Range(out.sent) \cap inflight = {}
        /\ Cardinality(inflight) + Len(out.sent) <= MaxInFlight
        /\ Record(Invocation("on_message", self, message, NoMessage, <<>>,
                             NoTarget),
                  out)
        /\ inflight' = inflight \cup Range(out.sent)
        /\ recv' = [s \in Sessions |->
                       recv[s] \o Tagged(out.written[s], message)]
        /\ UNCHANGED <<prog, answers, backend>>

\* A module answers a request it holds; the gateway reads the answer from
\* the bus and runs dispatch_message on it.
RTModuleAnswer(request) ==
    LET response == Result(request.body.id, "r1")
        message == Inbound(request.module, "array", 2, JStr(request.sid),
                           response)
        out == dispatch_message(message)
    IN  /\ Idle
        /\ request \in inflight
        /\ \A s \in Sessions : Len(recv[s]) + Len(out.written[s]) <= MaxRecv
        /\ Record(Invocation("dispatch_message", 0, NoFrame, message, <<>>,
                             NoTarget),
                  out)
        /\ inflight' = inflight \ {request}
        /\ recv' = [s \in Sessions |->
                       recv[s] \o Tagged(out.written[s], request.body)]
        /\ answers' = [s \in Sessions |->
                          IF session_id[s] = request.sid
                          THEN Append(answers[s],
                                      [for |-> request.body, doc |-> response])
                          ELSE answers[s]]
        /\ UNCHANGED <<prog, backend>>

NextRT ==
    \/ \E self \in Sessions : Construct(self)
    \/ \E self \in Sessions : Open(self)
    \/ \E self \in Sessions : \E message \in RTFrames : RTOnMessage(self, message)
    \/ \E request \in inflight : RTModuleAnswer(request)
    \/ \E self \in Sessions : OnClose(self)
    \/ Return

SpecRT == InitRT /\ [][NextRT]_vars

-----------------------------------------------------------------------------
(* Replies on the bus, with a log.  Sessions come and go as in Spec; the bus
   delivers replies [module, [sid, response]] for any sid, and the gateway
   runs dispatch_message on each.  recv logs every frame written to a
   session, answers every response that was addressed to the id of a session
   while it was connected. *)

\* The bus messages whose payload is [sid, response] with a JSON-RPC
\* response object.
Replies ==
    {message \in Messages :
        /\ message.kind = "array"
        /\ message.len = 2
        /\ message.response.kind = "result"}

Logged(docs) == Tagged(docs, NoFrame)

BusDelivers(message) ==
    LET out == dispatch_message(message)
        addressed == {s \in clients : message.sid = JStr(session_id[s])}
    IN  /\ Idle
        /\ \A s \in Sessions : Len(recv[s]) + Len(out.written[s]) <= MaxRecv
        /\ \A s \in addressed : Len(answers[s]) < MaxRecv
        /\ Record(Invocation("dispatch_message", 0, NoFrame, message, <<>>,
                             NoTarget),
                  out)
        /\ recv' = [s \in Sessions |-> recv[s] \o Logged(out.written[s])]
        /\ answers' = [s \in Sessions |->
                          IF s \in addressed
                          THEN answers[s] \o Logged(<<message.response>>)
                          ELSE answers[s]]
        /\ UNCHANGED <<prog, inflight, backend>>

NextOrder ==
    \/ \E self \in Sessions : Construct(self)
    \/ \E self \in Sessions : Open(self)
    \/ \E message \in Replies : BusDelivers(message)
    \/ \E self \in Sessions : OnClose(self)
    \/ Return

SpecOrder == Init /\ [][NextOrder]_vars

-----------------------------------------------------------------------------
(* The Frame Relay switch handlers as a state machine: the module calls the
   handler of the method of each request it reads from the bus. *)

Handle(handler, request, out) ==
    /\ handled = NoCall
    /\ handled' = [handler |-> handler, request |-> request]
    /\ frame_relay_switches' = out.switches
    /\ hypervisor_manager' = out.manager
    /\ replies' = out.replies
    /\ failed' = out.failed
    /\ UNCHANGED <<prog, effect, env>>

FrswCreate(request, fault) ==
    /\ DOMAIN frame_relay_switches # SwitchIds
    /\ \E id \in SwitchIds \ DOMAIN frame_relay_switches :
          Handle("frsw_create", request, frsw_create(request, fault, id))

FrswDelete(request, fault) ==
    Handle("frsw_delete", request, frsw_delete(request, fault))

FrswUpdate(request, fault) ==
    Handle("frsw_update", request, frsw_update(request, fault))

FrswAllocateUdpPort(request, fault) ==
    Handle("frsw_allocate_udp_port", request,
           frsw_allocate_udp_port(request, fault))

FrswAddNio(request, fault) ==
    Handle("frsw_add_nio", request, frsw_add_nio(request, fault))

FrswDeleteNio(request, fault) ==
    Handle("frsw_delete_nio", request, frsw_delete_nio(request, fault))

\* The handler is done and the module takes the next request.
FrswReturn ==
    /\ handled # NoCall
    /\ handled' = NoCall
    /\ replies' = <<>>
    /\ failed' = "none"
    /\ UNCHANGED <<frame_relay_switches, hypervisor_manager, prog, effect, env>>

NextFRSW ==
    \/ FrswReturn
    \/ \E request \in Requests :
          \/ \E fault \in FaultsOf({"start_hypervisor_manager",
                                    "allocate_hypervisor_for_simulated_device",
                                    "FrameRelaySwitch"}) :
                FrswCreate(request, fault)
          \/ \E fault \in FaultsOf({"delete",
                                    "unallocate_hypervisor_for_simulated_device"}) :
                FrswDelete(request, fault)
          \/ \E fault \in FaultsOf({"name"}) : FrswUpdate(request, fault)
          \/ \E fault \in FaultsOf({"allocate_udp_port"}) :
                FrswAllocateUdpPort(request, fault)
          \/ \E fault \in FaultsOf({"create_nio", "add_nio"})
                             \cup {Fault("create_nio", "None")} :
                FrswAddNio(request, fault)
          \/ \E fault \in FaultsOf({"remove_nio"}) : FrswDeleteNio(request, fault)

SpecFRSW == Init /\ [][NextFRSW]_vars

-----------------------------------------------------------------------------
(* Vocabulary of the claims *)

\* The handler invocation that has just ended.
Ran(op) == last.op = op

Has(frame, key) == frame.kind = "object" /\ key \in frame.members

\* The frame names a method that is registered to a module on the bus.
RegisteredRemote(frame) ==
    /\ Has(frame, "method")
    /\ frame.method \in DOMAIN destinations
    /\ destinations[frame.method].tag = "module"

Unregistered(frame) ==
    Has(frame, "method") /\ frame.method \notin DOMAIN destinations

\* The jsonrpc member is the JSON string "2.0".
IsVersion2(frame) == Has(frame, "jsonrpc") /\ frame.jsonrpc = JStr("2.0")

\* The frame has an id member that is not JSON null.
CarriesId(frame) == Has(frame, "id") /\ frame.id # JNull

NoWrites == \A s \in Sessions : written[s] = <<>>

\* Exactly one frame was written, to `self`, and it satisfies nothing but
\* being the document `doc`.
WroteOnly(self, doc) ==
    \A s \in Sessions : written[s] = IF s = self THEN <<doc>> ELSE <<>>

IsError(doc) == doc.kind = "error"

-----------------------------------------------------------------------------
(* C1: a frame with jsonrpc "2.0" and a method registered to a remote module
   M makes on_message send exactly one two-frame bus message, addressed to
   M, with the payload [session id, request], and write no WebSocket reply
   to any session. *)
C1_RemoteRequestRouted ==
    (Ran("on_message") /\ IsVersion2(last.frame) /\ RegisteredRemote(last.frame))
        => /\ sent = <<BusMessage(destinations[last.frame.method].name,
                                  session_id[last.self], last.frame)>>
           /\ NoWrites

(* C3: a frame that fails validation (jsonrpc or method missing, jsonrpc not
   "2.0", or method not registered) and carries an id makes on_message write
   exactly one error reply to the sending session and send no bus message. *)
FailsValidation(frame) ==
    \/ ~Has(frame, "jsonrpc")
    \/ ~Has(frame, "method")
    \/ ~IsVersion2(frame)
    \/ Unregistered(frame)

C3_InvalidWithIdOneError ==
    (Ran("on_message") /\ FailsValidation(last.frame) /\ CarriesId(last.frame))
        => /\ sent = <<>>
           /\ \E doc \in {JSONRPCParseError, JSONRPCInvalidRequest,
                          JSONRPCMethodNotFound(last.frame.id)} :
                 WroteOnly(last.self, doc)

(* C4: on_message answers with the first error that applies, in the order
   ParseError (not decodable, or jsonrpc or method missing), InvalidRequest
   (jsonrpc present and not "2.0", whatever the method), MethodNotFound with
   the request id (method not registered, id present); a frame whose jsonrpc
   is "2.0" is never answered with InvalidRequest. *)
C4_ClassificationOrder ==
    Ran("on_message") =>
        LET f == last.frame
            parse == ~Has(f, "jsonrpc") \/ ~Has(f, "method")
            invalid == ~parse /\ ~IsVersion2(f)
            notfound == ~parse /\ ~invalid /\ Unregistered(f) /\ CarriesId(f)
        IN  /\ parse => WroteOnly(last.self, JSONRPCParseError)
            /\ invalid => WroteOnly(last.self, JSONRPCInvalidRequest)
            /\ notfound => WroteOnly(last.self, JSONRPCMethodNotFound(f.id))
            /\ IsVersion2(f) => written[last.self] # <<JSONRPCInvalidRequest>>

(* C5: a notification (jsonrpc and method valid, no id) whose method is not
   registered makes on_message write no reply and send no bus message. *)
C5_UnknownNotificationSilent ==
    (/\ Ran("on_message")
     /\ IsVersion2(last.frame)
     /\ Unregistered(last.frame)
     /\ ~Has(last.frame, "id"))
        => sent = <<>> /\ NoWrites

-----------------------------------------------------------------------------
(* C6: a bus reply whose session id is not, when it is processed, the id of
   a session in the directory causes no WebSocket write to any session:
   dispatch_message writes only to sessions that are in the directory and
   whose id is the session id of the reply. *)
C6_StaleReplyDropped ==
    Ran("dispatch_message") =>
        \A s \in Sessions :
            written[s] # <<>> =>
                /\ s \in clients
                /\ last.message.sid = JStr(session_id[s])

\* A reply for a session that has disconnected arrives while another
\* session is connected, and nothing is written.
C6_Witness ==
    /\ Ran("dispatch_message")
    /\ last.message.kind = "array" /\ last.message.len = 2
    /\ Writable(last.message.response)
    /\ \E s \in closed \ clients : last.message.sid = JStr(session_id[s])
    /\ clients # {}
    /\ NoWrites

(* C7: the reset broadcast is emitted exactly once for each transition of
   the directory from non-empty to empty, by the on_close that empties it;
   an on_close that leaves a session in the directory sends nothing, and no
   other operation sends a notification of its own: all open, dispatch_message
   and register_destination send is nothing, and all on_message sends is the
   frame it received. *)
ResetMethods == {d \in DOMAIN destinations : d \in {a_reset, b_reset}}

\* The body of a bus message is a notification of the method d: it names
\* the method and has no id.
NotifiesOf(body, d) ==
    Has(body, "method") /\ body.method = d /\ ~Has(body, "id")

IsResetMessage(m, d) ==
    /\ m.module = destinations[d].name
    /\ m.sid = session_id[last.self]
    /\ NotifiesOf(m.body, d)

C8_OneNotificationPerResetMethod ==
    (Ran("on_close") /\ raised = "none" /\ clients = {})
        => /\ \A d \in ResetMethods :
                 Cardinality({i \in DOMAIN sent : IsResetMessage(sent[i], d)}) = 1
           /\ \A i \in DOMAIN sent :
                 \E d \in ResetMethods : IsResetMessage(sent[i], d)

\* Both reset methods are bound to one module, a method that does not end
\* with "reset" is registered too, and two messages went out.
C8_Witness ==
    /\ Ran("on_close") /\ raised = "none" /\ clients = {}
    /\ DOMAIN destinations = Methods
    /\ destinations[a_reset] = destinations[b_reset]
    /\ Len(sent) = 2
    /\ sent[1] # sent[2]

(* C9: every registered method is bound to one module, the one given when it
   was first registered: registering a method that is bound raises an
   assertion error and leaves the registry as it was; registering one that is
   not bound binds it to the module given, which a lookup then returns, and
   leaves the other bindings alone. *)
C9_FirstRegistrationWins ==
    [][/\ \A d \in DOMAIN destinations :
             d \in DOMAIN destinations' /\ destinations'[d] = destinations[d]
       /\ last'.op = "register_destination" =>
             IF last'.destination \in DOMAIN destinations
             THEN raised' = "AssertionError" /\ destinations' = destinations
             ELSE /\ raised' = "none"
                  /\ DOMAIN destinations' =
                        DOMAIN destinations \cup {last'.destination}
                  /\ destinations'[last'.destination] = last'.module
       /\ last'.op # "register_destination" => destinations' = destinations]_vars

\* A second registration of a bound method, for another module, has failed.
C9_Witness ==
    /\ Ran("register_destination")
    /\ raised = "AssertionError"
    /\ destinations[last.destination] # last.module

(* C10: a session is in the directory exactly when open has been invoked on
   it and on_close has not; no two sessions of the directory have the same
   session id; a session id, once assigned by the constructor, never
   changes. *)
C10_DirectoryIsTheLiveSessions ==
    /\ [](/\ \A s \in Sessions : s \in clients <=> s \in opened \ closed
          /\ \A s, u \in clients : session_id[s] = session_id[u] => s = u
          /\ \A s \in clients : session_id[s] # NoId)
    /\ [][\A s \in Sessions :
             session_id[s] # NoId => session_id'[s] = session_id[s]]_vars

\* One session is connected, with its id, after another has come and gone.
C10_Witness ==
    /\ clients = {2}
    /\ 1 \in opened \cap closed
    /\ session_id[1] # session_id[2]

-----------------------------------------------------------------------------
(* C2: round trip.  When a session that stays connected sends a well-formed
   request (jsonrpc "2.0", a method registered to a module, an id) and the
   module answers with [session id, response], the session receives exactly
   one write for the request, the module's response unchanged, and no other
   session receives anything: for each connected session, the frames written
   to it for its well-formed requests are the responses the modules have
   addressed to it for them, one for one. *)
WellFormed(request) ==
    IsVersion2(request) /\ RegisteredRemote(request) /\ CarriesId(request)

ForWellFormed(log) ==
    LET Test(entry) == WellFormed(entry.for)
    IN  SelectSeq(log, Test)

C2_RoundTrip ==
    \A s \in clients : ForWellFormed(recv[s]) = ForWellFormed(answers[s])

-----------------------------------------------------------------------------
(* C11, as stated: a frame that is a client protocol error (bad JSON, a
   required member missing, wrong version, unknown method) and carries no id
   is dropped silently: on_message writes no reply and sends no bus
   message. *)
C11_SilentWithoutId ==
    (Ran("on_message") /\ FailsValidation(last.frame) /\ ~Has(last.frame, "id"))
        => sent = <<>> /\ NoWrites

\* The jsonrpc member is there and is neither the string "2.0" nor the
\* number 2.0.
WrongVersion(frame) ==
    Has(frame, "jsonrpc") /\ frame.jsonrpc \notin {JStr("2.0"), JNum(2)}

(* C11, amended: a frame without an id that is bad JSON or lacks jsonrpc or
   method is answered with exactly one ParseError, and one that has both and
   names a version other than 2.0 with exactly one InvalidRequest, written to
   the sending session; none of them makes on_message send a bus message. *)
C11_ErrorsAnsweredWithoutId ==
    (Ran("on_message") /\ ~Has(last.frame, "id")) =>
        LET f == last.frame
            parse == ~Has(f, "jsonrpc") \/ ~Has(f, "method")
        IN  /\ parse =>
                 sent = <<>> /\ WroteOnly(last.self, JSONRPCParseError)
            /\ (~parse /\ WrongVersion(f)) =>
                 sent = <<>> /\ WroteOnly(last.self, JSONRPCInvalidRequest)

\* Text that is not JSON has been answered with a ParseError, while another
\* session is connected and gets nothing.
C11_Witness ==
    /\ Ran("on_message")
    /\ last.frame = TextFrame
    /\ Cardinality(clients) = 2
    /\ WroteOnly(last.self, JSONRPCParseError)

-----------------------------------------------------------------------------
(* C12: when the payload of a bus message cannot be decoded as JSON,
   dispatch_message writes nothing to any WebSocket, sends nothing back on
   the bus, and leaves the directory and the registry as they were. *)
C12_UndecodableDiscarded ==
    [][(last'.op = "dispatch_message" /\ last'.message.kind = "text") =>
          /\ written' = Nothing
          /\ sent' = <<>>
          /\ stream_sent' = <<>>
          /\ clients' = clients
          /\ destinations' = destinations]_vars

-----------------------------------------------------------------------------
\* The payload is JSON, and is not an array of two elements.
NotAPair(message) ==
    \/ message.kind \in {"object", "number"}
    \/ message.kind = "array" /\ message.len < 2

(* C13: when the payload of a bus message is valid JSON but not an array of
   two elements (an empty array, an array of one element, an object, a
   scalar), dispatch_message raises no error: it returns, having written
   nothing to any WebSocket. *)
C13_NonPairDiscarded ==
    (Ran("dispatch_message") /\ NotAPair(last.message)) =>
        raised = "none" /\ NoWrites

-----------------------------------------------------------------------------
\* The payload is [sid, response] and response is a JSON object, which is
\* what a module sends as a JSON-RPC response.
IsReply(message) ==
    /\ message.kind = "array"
    /\ message.len = 2
    /\ message.response.kind \in {"result", "error"}

\* The sessions of the directory whose id is the sid of the payload.
Addressed(message) ==
    {s \in clients : message.sid = JStr(session_id[s])}

(* C14: for a bus message [module, [sid, response]] whose sid is the id of
   a session in the directory, dispatch_message makes exactly one WebSocket
   write: to that session, of response, and nothing to any other session,
   whichever module address the message carries. *)
C14_ReplyToItsSession ==
    (Ran("dispatch_message") /\ IsReply(last.message)
        /\ Addressed(last.message) # {}) =>
        /\ raised = "none"
        /\ \E s \in Addressed(last.message) :
               WroteOnly(s, last.message.response)

\* Two sessions are in the directory; a reply for one of them, carrying the
\* address of the module that no method is bound to, was written to it alone.
C14_Witness ==
    /\ Ran("dispatch_message")
    /\ IsReply(last.message)
    /\ Cardinality(clients) = 2
    /\ last.message.module = "m2"
    /\ \A d \in DOMAIN destinations : destinations[d].name # "m2"
    /\ \E s \in clients : WroteOnly(s, last.message.response)

-----------------------------------------------------------------------------
(* C15: a request whose id is 0, the empty string or null counts as having
   no id: for a method that is not registered on_message writes no reply and
   sends no bus message, while the same request with any other id gets
   exactly one MethodNotFound reply that echoes the id. *)
C15_FalsyIdIsNoId ==
    (Ran("on_message") /\ IsVersion2(last.frame) /\ Unregistered(last.frame)
        /\ Has(last.frame, "id")) =>
        /\ sent = <<>>
        /\ IF last.frame.id \in {JNum(0), JStr(""), JNull}
           THEN NoWrites
           ELSE WroteOnly(last.self, JSONRPCMethodNotFound(last.frame.id))

-----------------------------------------------------------------------------
(* C16: for a valid frame whose method begins with "builtin" (the name
   "builtin" itself included): if the method is registered, on_message calls
   the registered handler exactly once, sends no bus message and writes no
   reply, with or without an id; if it is not registered, no handler is
   called and a frame with an id gets one MethodNotFound. *)
C16_BuiltinHandledInProcess ==
    (Ran("on_message") /\ IsVersion2(last.frame) /\ Has(last.frame, "method")
        /\ startswith(last.frame.method, builtin)) =>
        LET f == last.frame
            request_id == IF Has(f, "id") THEN f.id ELSE JNull
        IN  /\ sent = <<>>
            /\ IF f.method \in DOMAIN destinations
               THEN called = <<destinations[f.method].name>> /\ NoWrites
               ELSE /\ called = <<>>
                    /\ Truthy(request_id) =>
                         WroteOnly(last.self, JSONRPCMethodNotFound(request_id))

-----------------------------------------------------------------------------
\* The entries of a session's log of received frames that dispatch_message
\* wrote: the module responses, as opposed to the error replies of
\* on_message.
FromBus(log) ==
    LET Test(entry) == entry.doc.kind = "result"
    IN  SelectSeq(log, Test)

(* C17: for a session that stays connected, the sequence of frames that
   dispatch_message has written to it is the sequence of the responses of
   the bus messages addressed to its id, in the order in which they were
   processed: none reordered, duplicated or dropped, whatever was processed
   for other sessions in between. *)
C17_RepliesInOrder ==
    \A s \in clients : FromBus(recv[s]) = answers[s]

\* A connected session has been sent two different responses, and another
\* session has been sent one as well.
C17_Witness ==
    \E s \in clients :
        /\ Len(answers[s]) = 2
        /\ answers[s][1] # answers[s][2]
        /\ FromBus(recv[s]) = answers[s]
        /\ \E other \in Sessions \ {s} : answers[other] # <<>>

-----------------------------------------------------------------------------
(* C18: on_message and dispatch_message leave the directory and the
   registry as they are, for every input, protocol errors included.  After
   an error reply the session is still in the directory and any frame it
   sends next is handled exactly as it would have been before the error.
   The directory changes only in open and on_close, the registry only in
   register_destination. *)
C18_HandlersLeaveStateAlone ==
    [][/\ last'.op \in {"on_message", "dispatch_message"} =>
             clients' = clients /\ destinations' = destinations
       /\ clients' # clients => last'.op \in {"open", "on_close"}
       /\ destinations' # destinations => last'.op = "register_destination"
       /\ \A self \in Sessions :
             (last'.op = "on_message" /\ last'.self = self
                 /\ written'[self] # <<>>) =>
                 /\ self \in clients'
                 /\ \A frame \in Frames :
                        on_message(self, frame)' = on_message(self, frame)]_vars

\* A session has been sent an error reply, is in the directory, and a
\* request it can send next would be forwarded to the module of its method.
C18_Witness ==
    /\ Ran("on_message")
    /\ written[last.self] # <<>>
    /\ IsError(written[last.self][1])
    /\ last.self \in clients
    /\ \E frame \in Frames :
          /\ RegisteredRemote(frame)
          /\ on_message(last.self, frame).sent =
                <<BusMessage(destinations[frame.method].name,
                             session_id[last.self], frame)>>

-----------------------------------------------------------------------------
(* C19: on_close of a session that is not in the directory (never opened,
   or closed before) fails with an error before it does anything else: the
   directory is unchanged and no reset notification is sent, also when the
   directory is empty. *)
C19_CloseOfAbsentSessionFails ==
    [][\A self \in Sessions :
          (last'.op = "on_close" /\ last'.self = self /\ self \notin clients) =>
              /\ raised' = "KeyError"
              /\ clients' = clients
              /\ sent' = <<>>]_vars

\* A session that had been opened and closed is closed a second time, with
\* the directory empty and a reset method bound to a module: the call failed
\* and nothing was sent.
C19_Witness ==
    /\ Ran("on_close")
    /\ raised = "KeyError"
    /\ last.self \in opened
    /\ clients = {}
    /\ \E d \in ResetMethods : destinations[d].tag = "module"
    /\ sent = <<>>

-----------------------------------------------------------------------------
SendCalls == {"send_response", "send_custom_error", "send_param_error"}

(* C20: every Frame Relay switch handler that returns normally has made
   exactly one send call for the request: one of send_response,
   send_custom_error, send_param_error.  A request of None to a handler
   other than frsw_create ends in send_param_error with the switch table
   unchanged.  frsw_delete takes the switch id out of the table on the path
   that ends in send_response, and on no other. *)
C20_OneSendPerRequest ==
    /\ []((handled # NoCall /\ failed = "none") =>
             Len(replies) = 1 /\ replies[1].fn \in SendCalls)
    /\ [][/\ (handled'.handler \notin {"none", "frsw_create"}
                 /\ handled'.request = None) =>
                /\ replies' = <<Call("send_param_error", None)>>
                /\ failed' = "none"
                /\ frame_relay_switches' = frame_relay_switches
          /\ handled'.handler = "frsw_delete" =>
                IF failed' = "none" /\ replies'[1].fn = "send_response"
                THEN /\ handled'.request.id \in DOMAIN frame_relay_switches
                     /\ frame_relay_switches' =
                           [k \in DOMAIN frame_relay_switches
                                     \ {handled'.request.id} |->
                               frame_relay_switches[k]]
                ELSE frame_relay_switches' = frame_relay_switches]_vars

\* frsw_delete of a switch has ended in send_custom_error: the switch is
\* in the table still, next to another one.
C20_Witness ==
    /\ handled.handler = "frsw_delete"
    /\ replies = <<Call("send_custom_error", ErrorText)>>
    /\ handled.request.id \in DOMAIN frame_relay_switches
    /\ Cardinality(DOMAIN frame_relay_switches) = 2

=============================================================================
